---- MODULE Spec2Model ----
(***************************************************************************)
(* Dynamic templates for Markdown notes: the template-reference parser     *)
(* (getDynamicTemplateReferences) and the rewrite engine (update) of the   *)
(* plugin, with the script sandbox (DynamicTemplate.get / invoke) and the  *)
(* known-paths registries of the settings; calls of update that overlap   *)
(* at their awaits, edits of the note, and the command 'invoke-known'.     *)
(*                                                                         *)
(* A document is a non-empty sequence of lines (getLines / join("\n")).    *)
(* A line is the string it holds; the three regular expressions of the     *)
(* parser are modelled by what they match on the line vocabulary below,    *)
(* which holds matching lines and near misses of each pattern.             *)
(***************************************************************************)
EXTENDS Integers, Sequences, FiniteSets, TLC

VARIABLES
    \* ---- the scan of getDynamicTemplateReferences, line by line (SpecParse)
    scan,        \* locals of the scan: templates, currentTemplate, codeBlockStack, threw
    prev,        \* the locals before the line scanned last
    line,        \* the line scanned last
    pi,          \* the loop index i of the scan: the number of lines scanned
    pphase,      \* "scanning" | "returned" | "threw"
    unmatched,   \* history: the backtick counts (less 3) of the fences pushed for
                 \* which no fence line of the same count has been scanned since
    \* ---- update(file) (Spec, SpecLegacy)
    vault,       \* the template scripts of the vault: path -> behaviour of the script
    stored,      \* the text of the note in the vault, as its lines
    settings,    \* knownTemplatedFilePaths, knownTemplatePaths
    pc,          \* "idle" | "invoke" | "write" | "done" | "failed" ("off" in SpecParse)
    md,          \* the lines update read
    references,  \* the references update parsed
    idx,         \* the loop index i of update's walk
    newLines,    \* the output lines built so far
    invoked,     \* history: per reference invoked in this update, its lineStart, the
                 \* place of its opening line in newLines, and the result of invoke
    writes,      \* history: number of vault.modify calls in this update
    round,       \* history: number of updates started
    expanded,    \* history: the text this update read was left by a completed update
    \* ---- several notes and several calls of update (SpecInterleave, SpecOverlap,
    \* ---- SpecKnown)
    notes,       \* the text of each note of the vault, as its lines (<<>>: no such file)
    linkpathDest,\* per note, the script paths getFirstLinkpathDest resolves from it
    tasks,       \* per call of update in flight: file, pc, md, references, idx, newLines
    settings0,   \* history: the settings before the first call
    cmd          \* the 'invoke-known' command: pc, the iterator's index, paths processed

vars == <<scan, prev, line, pi, pphase, unmatched, vault, stored, settings, pc, md,
          references, idx, newLines, invoked, writes, round, expanded,
          notes, linkpathDest, tasks, settings0, cmd>>

parseVars == <<scan, prev, line, pi, pphase, unmatched>>
updateVars == <<vault, stored, settings, pc, md, references, idx, newLines,
                invoked, writes, round, expanded>>
taskVars == <<notes, linkpathDest, tasks, settings0, cmd>>

(***************************************************************************)
(* Bounds of the model.                                                    *)
(***************************************************************************)
MaxScan == 5       \* lines scanned by the parser in SpecParse
MaxLines == 3      \* lines of the note an update starts from
MaxRounds == 2     \* updates run one after the other on the note

(***************************************************************************)
(* The line vocabulary.                                                    *)
(***************************************************************************)
RefA == "%%{ template: 'a.js' }%%"
RefB == "%%{ template: 'b.js', name: 'Nate' }%%"
RefObjects == "%%{ template: 'a.js', list: [1, 2, 3], obj: { foo: 'bar'} }%%"
RefNoKey == "%%{ name: 'Nate' }%%"             \* object literal without template
RefEmptyKey == "%%{ template: '' }%%"          \* template key that is falsy
RefMalformed == "%%{ template: }%%"            \* not an object literal
RefNoSpace == "%%{template: 'a.js'}%%"         \* near miss: \s+ does not match
End == "%%%%"
EndSpace == "%%%% "                            \* the pattern allows trailing blanks
EndSplit == "%% %%"                            \* near miss: not four % in a row
Text == "text"

\* A backtick cannot stand in a TLA+ string: ^ is written for it.
BacktickRuns == {"^^^", "^^^^", "^^^^^", "^^^^^^"}
FenceLang == "^^^js"
FenceInline == "^^^a^b"                        \* near miss: a backtick after the run

NoMatch == -1
NoLine == -1

\* regexCodeBlock (three backticks, group 1 of more backticks, then no
\* backtick to the end of the line): the length of group 1, or NoMatch.
matchCodeBlock(l) ==
    IF l \in BacktickRuns THEN Len(l) - 3
    ELSE IF l = FenceLang THEN 0
    ELSE NoMatch

\* regexTempStart = /^%%{\s+([^%]+)\s+}%%\s*$/
matchTempStart(l) == l \in {RefA, RefB, RefObjects, RefNoKey, RefEmptyKey, RefMalformed}

\* regexTempEnd = /^%%%%\s*$/
matchTempEnd(l) == l \in {End, EndSpace}

\* new Function('return {' + matchTempStart[1] + '}')(): the object the literal
\* evaluates to, or a thrown SyntaxError.
evalArgs(l) ==
    CASE l = RefA -> [threw |-> FALSE, value |-> [template |-> "a.js"]]
      [] l = RefB -> [threw |-> FALSE, value |-> [template |-> "b.js", name |-> "Nate"]]
      [] l = RefObjects -> [threw |-> FALSE,
                            value |-> [template |-> "a.js", list |-> <<1, 2, 3>>,
                                       obj |-> [foo |-> "bar"]]]
      [] l = RefNoKey -> [threw |-> FALSE, value |-> [name |-> "Nate"]]
      [] l = RefEmptyKey -> [threw |-> FALSE, value |-> [template |-> ""]]
      [] OTHER -> [threw |-> TRUE, value |-> [name |-> "SyntaxError"]]

\* A template key counts whatever it holds.
hasTemplate_KeyPresent(args) == "template" \in DOMAIN args

\* JavaScript truthiness of args.template.
hasTemplate(args) == "template" \in DOMAIN args /\ args.template # ""

(***************************************************************************)
(* getDynamicTemplateReferences: one iteration of its loop on line l at    *)
(* index i. currentTemplate is the index in templates of the open          *)
(* reference (0: null).                                                    *)
(***************************************************************************)
ScanInit ==
    [templates |-> <<>>, currentTemplate |-> 0, codeBlockStack |-> <<>>, threw |-> FALSE]

\* The elements of an array.
elements(arr) == {arr[k] : k \in 1..Len(arr)}

\* Array.indexOf, 0-based; -1 when absent.
indexOf(s, x) ==
    IF \E k \in 1..Len(s) : s[k] = x
    THEN (CHOOSE k \in 1..Len(s) : s[k] = x /\ \A j \in 1..(k - 1) : s[j] # x) - 1
    ELSE -1

\* A fence line scanned inside a code block closes the code block.
fenceStep_Toggle(stack, depth) ==
    IF stack = <<>> THEN <<depth>> ELSE <<>>

\* The fence bookkeeping of a line that matches regexCodeBlock.
fenceStep(stack, depth) ==
    IF indexOf(stack, depth) = -1
    THEN Append(stack, depth)
    ELSE SubSeq(stack, 1, indexOf(stack, depth))

\* The reference keeps the arguments without the template key.
NewReference_DropsTemplate(path, i, args) ==
    [path |-> path, lineStart |-> i, lineEnd |-> NoLine,
     args |-> [k \in DOMAIN args \ {"template"} |-> args[k]]]

NewReference(path, i, args) ==
    [path |-> path, lineStart |-> i, lineEnd |-> NoLine, args |-> args]

\* A terminator closes the reference pushed last, open or not.
endStep_ClosesLast(st, l, i) ==
    IF matchTempEnd(l) /\ st.templates # <<>>
    THEN [st EXCEPT !.templates[Len(st.templates)].lineEnd = i,
                    !.currentTemplate = 0]
    ELSE st

\* The terminator branch (reached by every line that opened no reference).
endStep(st, l, i) ==
    IF matchTempEnd(l) /\ st.currentTemplate # 0
    THEN [st EXCEPT !.templates[st.currentTemplate].lineEnd = i,
                    !.currentTemplate = 0]
    ELSE st

\* A reference that is open stays the current one when another starts.
startStep_KeepsOpen(st, l, i) ==
    IF ~matchTempStart(l) THEN endStep(st, l, i)
    ELSE IF evalArgs(l).threw THEN [st EXCEPT !.threw = TRUE]
    ELSE IF hasTemplate(evalArgs(l).value)
         THEN [st EXCEPT !.templates = Append(@, NewReference(evalArgs(l).value.template,
                                                             i, evalArgs(l).value)),
                         !.currentTemplate = IF st.currentTemplate # 0
                                             THEN st.currentTemplate
                                             ELSE Len(st.templates) + 1]
         ELSE endStep(st, l, i)

\* The reference-start branch.
startStep(st, l, i) ==
    IF ~matchTempStart(l) THEN endStep(st, l, i)
    ELSE IF evalArgs(l).threw THEN [st EXCEPT !.threw = TRUE]
    ELSE IF hasTemplate(evalArgs(l).value)
         THEN [st EXCEPT !.templates = Append(@, NewReference(evalArgs(l).value.template,
                                                             i, evalArgs(l).value)),
                         !.currentTemplate = Len(st.templates) + 1]
         ELSE endStep(st, l, i)

\* The scan without "if (codeBlockStack.length > 0) continue".
ParseLine_IgnoresFences(st, l, i) ==
    IF matchCodeBlock(l) # NoMatch
    THEN [st EXCEPT !.codeBlockStack = fenceStep(@, matchCodeBlock(l))]
    ELSE startStep(st, l, i)

ParseLine(st, l, i) ==
    IF matchCodeBlock(l) # NoMatch
    THEN [st EXCEPT !.codeBlockStack = fenceStep(@, matchCodeBlock(l))]
    ELSE IF Len(st.codeBlockStack) > 0 THEN st
    ELSE startStep(st, l, i)

RECURSIVE ParseFrom(_, _, _)
ParseFrom(st, lines, i) ==
    IF st.threw \/ i >= Len(lines) THEN st
    ELSE ParseFrom(ParseLine(st, lines[i + 1], i), lines, i + 1)

\* The whole function on the lines of a document.
getDynamicTemplateReferences(lines) == ParseFrom(ScanInit, lines, 0)

(***************************************************************************)
(* SpecParse: the scan, one line at a time, on every document of at most   *)
(* MaxScan lines over ScanAlphabet.                                        *)
(***************************************************************************)
ScanAlphabet ==
    BacktickRuns \cup {FenceLang, FenceInline, RefA, RefB, RefObjects, RefNoKey, RefEmptyKey,
                       RefMalformed, RefNoSpace, End, EndSpace, EndSplit, Text}

\* No note but the one of update, no call of update in flight, no command.
TasksIdle ==
    /\ notes = <<>>
    /\ linkpathDest = <<>>
    /\ tasks = <<>>
    /\ settings0 = <<>>
    /\ cmd = <<>>

UpdateIdle ==
    /\ vault = [p \in {"a.js", "b.js"} |-> "missing"]
    /\ stored = <<Text>>
    /\ settings = [knownTemplatedFilePaths |-> <<>>, knownTemplatePaths |-> <<>>]
    /\ pc = "off"
    /\ md = <<>>
    /\ references = <<>>
    /\ idx = 0
    /\ newLines = <<>>
    /\ invoked = <<>>
    /\ writes = 0
    /\ round = 0
    /\ expanded = FALSE

ParseInit ==
    /\ scan = ScanInit
    /\ prev = ScanInit
    /\ line = Text
    /\ pi = 0
    /\ pphase = "scanning"
    /\ unmatched = {}

InitParse == ParseInit /\ UpdateIdle /\ TasksIdle

ScanLine ==
    /\ pphase = "scanning"
    /\ pi < MaxScan
    /\ \E l \in ScanAlphabet :
        /\ line' = l
        /\ prev' = scan
        /\ scan' = ParseLine(scan, l, pi)
        /\ pi' = pi + 1
        /\ pphase' = IF ParseLine(scan, l, pi).threw THEN "threw" ELSE "scanning"
        /\ unmatched' = IF matchCodeBlock(l) = NoMatch THEN unmatched
                        ELSE IF indexOf(scan.codeBlockStack, matchCodeBlock(l)) = -1
                        THEN unmatched \cup {matchCodeBlock(l)}
                        ELSE unmatched \ {matchCodeBlock(l)}
    /\ UNCHANGED <<updateVars, taskVars>>

ScanReturn ==
    /\ pphase = "scanning"
    /\ pi >= 1
    /\ pphase' = "returned"
    /\ UNCHANGED <<scan, prev, line, pi, unmatched>>
    /\ UNCHANGED <<updateVars, taskVars>>

NextParse == ScanLine \/ ScanReturn

SpecParse == InitParse /\ [][NextParse]_vars

(***************************************************************************)
(* The vault's template scripts. A script is modelled by what running it   *)
(* does: the value it returns or the value it throws, given input.         *)
(***************************************************************************)
Paths == {"a.js", "b.js"}
File == "note.md"

\* The behaviours of a script file; "missing": the vault holds no such file.
Behaviours ==
    {"greet",       \* return "My name is " + input.name + "."
     "nothing",     \* no return statement
     "empty",       \* return ""
     "end",         \* return "%%%%"
     "ref",         \* return "%%{ template: 'b.js', name: 'Nate' }%%"
     "fence",       \* return three backticks
     "two",         \* return "one\ntwo"
     "echo",        \* return "Input: " + JSON.stringify(input)
     "throwError",  \* throw new Error("boom")
     "syntax",      \* does not compile: new Function throws a SyntaxError
     "reject",      \* return Promise.reject("late")
     "throwNull"}   \* throw null

\* input.name in a template string.
inputName(args) == IF "name" \in DOMAIN args THEN args.name ELSE "undefined"

\* JSON.stringify of an array of numbers, without its brackets.
RECURSIVE stringifyItems(_)
stringifyItems(list) ==
    IF list = <<>> THEN ""
    ELSE IF Len(list) = 1 THEN ToString(list[1])
    ELSE ToString(list[1]) \o "," \o stringifyItems(Tail(list))

\* JSON.stringify(input): the keys input holds, in the order of the literal.
stringify(args) ==
    "{"
    \o (IF "template" \in DOMAIN args THEN "\"template\":\"" \o args.template \o "\"" ELSE "")
    \o (IF "name" \in DOMAIN args THEN ",\"name\":\"" \o args.name \o "\"" ELSE "")
    \o (IF "list" \in DOMAIN args THEN ",\"list\":[" \o stringifyItems(args.list) \o "]" ELSE "")
    \o (IF "obj" \in DOMAIN args THEN ",\"obj\":{\"foo\":\"" \o args.obj.foo \o "\"}" ELSE "")
    \o "}"

Returned(lines) == [kind |-> "return", defined |-> TRUE, lines |-> lines]
ReturnedNothing == [kind |-> "return", defined |-> FALSE, lines |-> <<>>]
Thrown(isNull, name, message) ==
    [kind |-> "throw", isNull |-> isNull, name |-> name, message |-> message]

\* templateFunction(customRequire, dvProxy, args, invokeTemplate), awaited: a
\* returned string as its lines (getLines), or the value thrown. A thrown value
\* without a name property has name "".
Run(code, args) ==
    CASE code = "greet" -> Returned(<<"My name is " \o inputName(args) \o ".">>)
      [] code = "nothing" -> ReturnedNothing
      [] code = "empty" -> Returned(<<"">>)
      [] code = "end" -> Returned(<<End>>)
      [] code = "ref" -> Returned(<<RefB>>)
      [] code = "fence" -> Returned(<<"^^^">>)
      [] code = "two" -> Returned(<<"one", "two">>)
      [] code = "echo" -> Returned(<<"Input: " \o stringify(args)>>)
      [] code = "throwError" -> Thrown(FALSE, "Error", "boom")
      [] code = "syntax" -> Thrown(FALSE, "SyntaxError", "Unexpected token")
      [] code = "reject" -> Thrown(FALSE, "", "late")
      [] code = "throwNull" -> Thrown(TRUE, "", "null")
      [] code = "notFound" -> Thrown(FALSE, "Error", "Template not found")

\* DynamicTemplate.get: a template instance, even if the script is not found.
get(v, path) ==
    IF v[path] # "missing"
    THEN [path |-> path, code |-> v[path], exists |-> TRUE]
    ELSE [path |-> path, code |-> "notFound", exists |-> FALSE]

\* The catch block of invoke: the marker of a thrown value; reading .name of
\* null throws in the catch block itself, and invoke rejects.
errorMarker(e) ==
    IF e.isNull THEN [rejected |-> TRUE, defined |-> FALSE, lines |-> <<>>]
    ELSE IF e.name # ""
    THEN [rejected |-> FALSE, defined |-> TRUE,
          lines |-> <<"%% **" \o e.name \o ":** " \o e.message \o " %%">>]
    ELSE [rejected |-> FALSE, defined |-> TRUE, lines |-> <<"%% " \o e.message \o " %%">>]

\* DynamicTemplate.invoke: result?.toString(), as lines; or the error marker.
invoke(template, args) ==
    IF Run(template.code, args).kind = "return"
    THEN [rejected |-> FALSE, defined |-> Run(template.code, args).defined,
          lines |-> Run(template.code, args).lines]
    ELSE errorMarker(Run(template.code, args))

\* if (result): a defined, non-empty string. The empty string is the one
\* string whose lines are a single empty line.
truthy(result) == result.defined /\ result.lines # <<"">>

(***************************************************************************)
(* The known-paths registries (arrays of the settings).                    *)
(***************************************************************************)
contains(arr, x) == \E k \in 1..Len(arr) : arr[k] = x
remove(arr, x) == SelectSeq(arr, LAMBDA y : y # x)

addKnownTemplatedFilePath(s, path) ==
    IF ~contains(s.knownTemplatedFilePaths, path)
    THEN [s EXCEPT !.knownTemplatedFilePaths = Append(@, path)]
    ELSE s

\* A removal that removes nothing.
removeKnownTemplatedFilePath_Keeps(s, path) == s

removeKnownTemplatedFilePath(s, path) ==
    [s EXCEPT !.knownTemplatedFilePaths = remove(@, path)]

addKnownTemplatePath(s, path) ==
    IF ~contains(s.knownTemplatePaths, path)
    THEN [s EXCEPT !.knownTemplatePaths = Append(@, path)]
    ELSE s

removeKnownTemplatePath(s, path) ==
    [s EXCEPT !.knownTemplatePaths = remove(@, path)]

(***************************************************************************)
(* update(file).                                                           *)
(***************************************************************************)
\* references.find(t => t.lineStart <= i)
findReference_AtOrBefore(refs, i) ==
    IF \E k \in 1..Len(refs) : refs[k].lineStart <= i
    THEN CHOOSE k \in 1..Len(refs) :
            refs[k].lineStart <= i /\ \A j \in 1..(k - 1) : refs[j].lineStart > i
    ELSE 0

\* references.find(t => t.lineStart === i): its index in references, 0 if none.
findReference(refs, i) ==
    IF \E k \in 1..Len(refs) : refs[k].lineStart = i
    THEN CHOOSE k \in 1..Len(refs) :
            refs[k].lineStart = i /\ \A j \in 1..(k - 1) : refs[j].lineStart # i
    ELSE 0

\* The iterations of the walk from index i up to its next await: the lines
\* pushed, and whether the walk stands at a reference (awaiting its template)
\* or has left the loop.
RECURSIVE walk(_, _, _, _)
walk(lines, refs, i, out) ==
    IF i >= Len(lines) THEN [idx |-> i, newLines |-> out, atReference |-> FALSE]
    ELSE IF findReference(refs, i) # 0
         THEN [idx |-> i, newLines |-> Append(out, lines[i + 1]), atReference |-> TRUE]
         ELSE walk(lines, refs, i + 1, Append(out, lines[i + 1]))

\* if (result) { newLines.push(...getLines(result)); newLines.push('%%%%') }
emit(out, result) ==
    IF truthy(result) THEN out \o result.lines \o <<End>> ELSE out

\* if (template.exists) addKnownTemplatePath else removeKnownTemplatePath
recordTemplate(s, template, reference) ==
    IF template.exists
    THEN addKnownTemplatePath(s, reference.path)
    ELSE removeKnownTemplatePath(s, reference.path)

\* The walk without the jump past the old body.
skip_KeepsOldBody(reference, i) == i

\* The jump lands one line past the old terminator.
skip_PastNextLine(reference, i) ==
    IF reference.lineEnd # NoLine /\ reference.lineEnd # 0
    THEN i + (reference.lineEnd - reference.lineStart) + 1
    ELSE i

\* if (reference.lineEnd) i += reference.lineEnd - reference.lineStart
skip(reference, i) ==
    IF reference.lineEnd # NoLine /\ reference.lineEnd # 0
    THEN i + (reference.lineEnd - reference.lineStart)
    ELSE i

\* newLines.join("\n"), as the lines vault.modify stores.
data(lines) == lines

\* The documents an update starts from.
UpdateAlphabet == {Text, End, RefA, RefB, RefMalformed, "^^^"}
Docs == UNION {[1..n -> UpdateAlphabet] : n \in 1..MaxLines}

\* The vaults: a.js is any script or missing, b.js one of three.
Vaults ==
    {v \in [Paths -> Behaviours \cup {"missing"}] :
        v["b.js"] \in {"missing", "greet", "throwNull"}}

\* The settings loadSettings finds: DEFAULT_SETTINGS, or every path known.
DEFAULT_SETTINGS == [knownTemplatedFilePaths |-> <<>>, knownTemplatePaths |-> <<>>]
AllKnown == [knownTemplatedFilePaths |-> <<File>>, knownTemplatePaths |-> <<"a.js", "b.js">>]

Init ==
    /\ ParseInit
    /\ TasksIdle
    /\ vault \in Vaults
    /\ stored \in Docs
    /\ settings \in {DEFAULT_SETTINGS, AllKnown}
    /\ pc = "idle"
    /\ md = <<>>
    /\ references = <<>>
    /\ idx = 0
    /\ newLines = <<>>
    /\ invoked = <<>>
    /\ writes = 0
    /\ round = 0
    /\ expanded = FALSE

\* update is called (a command) when no update is running.
CanStart == pc \in {"idle", "done", "failed"} /\ round < MaxRounds

\* update up to its first await, given what the parser made of the text read.
\* The parser throws: update rejects before it touches anything.
StartParseFails(parse) ==
    /\ CanStart
    /\ parse.threw
    /\ md' = stored
    /\ pc' = "failed"
    /\ references' = <<>>
    /\ idx' = 0
    /\ newLines' = <<>>
    /\ invoked' = <<>>
    /\ writes' = 0
    /\ round' = round + 1
    /\ expanded' = (pc = "done")
    /\ UNCHANGED <<vault, stored, settings>>
    /\ UNCHANGED <<parseVars, taskVars>>

\* references.length === 0: the path is removed and update returns.
StartNoReferences(parse) ==
    /\ CanStart
    /\ ~parse.threw
    /\ parse.templates = <<>>
    /\ md' = stored
    /\ settings' = removeKnownTemplatedFilePath(settings, File)
    /\ pc' = "done"
    /\ references' = <<>>
    /\ idx' = 0
    /\ newLines' = <<>>
    /\ invoked' = <<>>
    /\ writes' = 0
    /\ round' = round + 1
    /\ expanded' = (pc = "done")
    /\ UNCHANGED <<vault, stored>>
    /\ UNCHANGED <<parseVars, taskVars>>

\* Some reference: the path is added and the walk runs to its first await.
StartWalk(parse) ==
    /\ CanStart
    /\ ~parse.threw
    /\ parse.templates # <<>>
    /\ md' = stored
    /\ references' = parse.templates
    /\ settings' = addKnownTemplatedFilePath(settings, File)
    /\ LET w == walk(stored, parse.templates, 0, <<>>)
       IN /\ idx' = w.idx
          /\ newLines' = w.newLines
          /\ pc' = IF w.atReference THEN "invoke" ELSE "write"
    /\ invoked' = <<>>
    /\ writes' = 0
    /\ round' = round + 1
    /\ expanded' = (pc = "done")
    /\ UNCHANGED <<vault, stored>>
    /\ UNCHANGED <<parseVars, taskVars>>

UpdateParseFails == StartParseFails(getDynamicTemplateReferences(stored))
UpdateNoReferences == StartNoReferences(getDynamicTemplateReferences(stored))
UpdateStart == StartWalk(getDynamicTemplateReferences(stored))

\* The reference the walk stands at, its template and the result of invoking it.
Reference == references[findReference(references, idx)]
Template == get(vault, Reference.path)
Result == invoke(Template, Reference.args)

\* History of the invocation at the reference the walk stands at.
Invocation ==
    [lineStart |-> idx, at |-> Len(newLines), path |-> Reference.path,
     terminated |-> Reference.lineEnd # NoLine,
     threw |-> Run(Template.code, Reference.args).kind = "throw",
     result |-> Result, code |-> Template.code, input |-> Reference.args]

\* The body of the loop at a reference, and the walk on to the next await.
Invoke ==
    /\ pc = "invoke"
    /\ ~Result.rejected
    /\ settings' = recordTemplate(settings, Template, Reference)
    /\ LET w == walk(md, references, skip(Reference, idx) + 1, emit(newLines, Result))
       IN /\ idx' = w.idx
          /\ newLines' = w.newLines
          /\ pc' = IF w.atReference THEN "invoke" ELSE "write"
    /\ invoked' = Append(invoked, Invocation)
    /\ UNCHANGED <<vault, stored, md, references, writes, round, expanded>>
    /\ UNCHANGED <<parseVars, taskVars>>

\* The exception leaves update through a handler that flushes newLines.
InvokeRejects_Flushes ==
    /\ pc = "invoke"
    /\ Result.rejected
    /\ pc' = "failed"
    /\ stored' = data(newLines)
    /\ invoked' = Append(invoked, Invocation)
    /\ UNCHANGED <<vault, settings, md, references, idx, newLines, writes,
                   round, expanded>>
    /\ UNCHANGED <<parseVars, taskVars>>

\* template.invoke rejects: the exception leaves update.
InvokeRejects ==
    /\ pc = "invoke"
    /\ Result.rejected
    /\ pc' = "failed"
    /\ invoked' = Append(invoked, Invocation)
    /\ UNCHANGED <<vault, stored, settings, md, references, idx, newLines, writes,
                   round, expanded>>
    /\ UNCHANGED <<parseVars, taskVars>>

\* await vault.modify(file, data)
Write ==
    /\ pc = "write"
    /\ stored' = data(newLines)
    /\ writes' = writes + 1
    /\ pc' = "done"
    /\ UNCHANGED <<vault, settings, md, references, idx, newLines, invoked, round,
                   expanded>>
    /\ UNCHANGED <<parseVars, taskVars>>

Next ==
    \/ UpdateParseFails
    \/ UpdateNoReferences
    \/ UpdateStart
    \/ Invoke
    \/ InvokeRejects
    \/ Write

Spec == Init /\ [][Next]_vars

(***************************************************************************)
(* SpecArgs: update on notes whose references carry arguments of every     *)
(* shape of the vocabulary, with scripts that report the input they get.   *)
(***************************************************************************)
ArgsAlphabet == {RefA, RefB, RefObjects, RefMalformed, End}
ArgsDocs == UNION {[1..n -> ArgsAlphabet] : n \in 1..MaxLines}

ArgsVaults ==
    {v \in [Paths -> Behaviours \cup {"missing"}] :
        /\ v["a.js"] \in {"echo", "greet", "throwNull", "missing"}
        /\ v["b.js"] \in {"echo", "greet"}}

InitArgs ==
    /\ ParseInit
    /\ TasksIdle
    /\ vault \in ArgsVaults
    /\ stored \in ArgsDocs
    /\ settings \in {DEFAULT_SETTINGS, AllKnown}
    /\ pc = "idle"
    /\ md = <<>>
    /\ references = <<>>
    /\ idx = 0
    /\ newLines = <<>>
    /\ invoked = <<>>
    /\ writes = 0
    /\ round = 0
    /\ expanded = FALSE

SpecArgs == InitArgs /\ [][Next]_vars

(***************************************************************************)
(* The earlier revision of the plugin (src/main.ts): markers without       *)
(* braces, a script that is not found yields no template (null), and       *)
(* nothing catches what a script throws. SpecLegacy runs its update.       *)
(***************************************************************************)
LegacyRefA == "%% template: 'a.js' %%"
LegacyRefB == "%% template: 'b.js', name: 'Nate' %%"
LegacyRefMalformed == "%% template: %%"

\* regexTempStart = /^%%\s+([^%]+)\s+%%\s*$/
matchTempStartLegacy(l) == l \in {LegacyRefA, LegacyRefB, LegacyRefMalformed}

\* eval('({' + matchTempStart[1] + '})')
evalArgsLegacy(l) ==
    CASE l = LegacyRefA -> [threw |-> FALSE, value |-> [template |-> "a.js"]]
      [] l = LegacyRefB -> [threw |-> FALSE, value |-> [template |-> "b.js", name |-> "Nate"]]
      [] OTHER -> [threw |-> TRUE, value |-> [name |-> "SyntaxError"]]

startStepLegacy(st, l, i) ==
    IF ~matchTempStartLegacy(l) THEN endStep(st, l, i)
    ELSE IF evalArgsLegacy(l).threw THEN [st EXCEPT !.threw = TRUE]
    ELSE IF hasTemplate(evalArgsLegacy(l).value)
         THEN [st EXCEPT !.templates =
                            Append(@, NewReference(evalArgsLegacy(l).value.template,
                                                   i, evalArgsLegacy(l).value)),
                         !.currentTemplate = Len(st.templates) + 1]
         ELSE endStep(st, l, i)

ParseLineLegacy(st, l, i) ==
    IF matchCodeBlock(l) # NoMatch
    THEN [st EXCEPT !.codeBlockStack = fenceStep(@, matchCodeBlock(l))]
    ELSE IF Len(st.codeBlockStack) > 0 THEN st
    ELSE startStepLegacy(st, l, i)

RECURSIVE ParseFromLegacy(_, _, _)
ParseFromLegacy(st, lines, i) ==
    IF st.threw \/ i >= Len(lines) THEN st
    ELSE ParseFromLegacy(ParseLineLegacy(st, lines[i + 1], i), lines, i + 1)

getDynamicTemplateReferencesLegacy(lines) == ParseFromLegacy(ScanInit, lines, 0)

\* reference.invokeTemplate(): DynamicTemplate.get returns null when the
\* script is not found, and the result is then null; get compiles the script
\* and invoke runs it, and what either throws leaves invokeTemplate.
invokeTemplateLegacy(v, reference) ==
    IF v[reference.path] = "missing"
    THEN [rejected |-> FALSE, defined |-> FALSE, lines |-> <<>>]
    ELSE IF Run(v[reference.path], reference.args).kind = "throw"
    THEN [rejected |-> TRUE, defined |-> FALSE, lines |-> <<>>]
    ELSE [rejected |-> FALSE, defined |-> Run(v[reference.path], reference.args).defined,
          lines |-> Run(v[reference.path], reference.args).lines]

\* if (generatedContent) addKnownTemplatePath else removeKnownTemplatePath
recordTemplateLegacy(s, generatedContent, reference) ==
    IF truthy(generatedContent)
    THEN addKnownTemplatePath(s, reference.path)
    ELSE removeKnownTemplatePath(s, reference.path)

DocsLegacy ==
    UNION {[1..n -> {Text, End, LegacyRefA, LegacyRefB, LegacyRefMalformed, "^^^"}] :
             n \in 1..MaxLines}

InitLegacy ==
    /\ ParseInit
    /\ TasksIdle
    /\ vault \in Vaults
    /\ stored \in DocsLegacy
    /\ settings \in {DEFAULT_SETTINGS, AllKnown}
    /\ pc = "idle"
    /\ md = <<>>
    /\ references = <<>>
    /\ idx = 0
    /\ newLines = <<>>
    /\ invoked = <<>>
    /\ writes = 0
    /\ round = 0
    /\ expanded = FALSE

UpdateParseFailsLegacy == StartParseFails(getDynamicTemplateReferencesLegacy(stored))
UpdateNoReferencesLegacy == StartNoReferences(getDynamicTemplateReferencesLegacy(stored))
UpdateStartLegacy == StartWalk(getDynamicTemplateReferencesLegacy(stored))

GeneratedContent == invokeTemplateLegacy(vault, Reference)

InvocationLegacy ==
    [lineStart |-> idx, at |-> Len(newLines), path |-> Reference.path,
     terminated |-> Reference.lineEnd # NoLine,
     threw |-> GeneratedContent.rejected,
     result |-> GeneratedContent, code |-> vault[Reference.path], input |-> Reference.args]

InvokeLegacy ==
    /\ pc = "invoke"
    /\ ~GeneratedContent.rejected
    /\ settings' = recordTemplateLegacy(settings, GeneratedContent, Reference)
    /\ LET w == walk(md, references, skip(Reference, idx) + 1,
                     emit(newLines, GeneratedContent))
       IN /\ idx' = w.idx
          /\ newLines' = w.newLines
          /\ pc' = IF w.atReference THEN "invoke" ELSE "write"
    /\ invoked' = Append(invoked, InvocationLegacy)
    /\ UNCHANGED <<vault, stored, md, references, writes, round, expanded>>
    /\ UNCHANGED <<parseVars, taskVars>>

InvokeRejectsLegacy ==
    /\ pc = "invoke"
    /\ GeneratedContent.rejected
    /\ pc' = "failed"
    /\ invoked' = Append(invoked, InvocationLegacy)
    /\ UNCHANGED <<vault, stored, settings, md, references, idx, newLines, writes,
                   round, expanded>>
    /\ UNCHANGED <<parseVars, taskVars>>

NextLegacy ==
    \/ UpdateParseFailsLegacy
    \/ UpdateNoReferencesLegacy
    \/ UpdateStartLegacy
    \/ InvokeLegacy
    \/ InvokeRejectsLegacy
    \/ Write

SpecLegacy == InitLegacy /\ [][NextLegacy]_vars


(***************************************************************************)
(* Several notes, several calls of update. Each call of update keeps its   *)
(* own locals; the notes of the vault and the settings are shared. A call  *)
(* yields at its awaits (vault.read, reference.template, template.invoke,  *)
(* vault.modify), where another call or the editor may run.                *)
(***************************************************************************)
MaxNoteLines == 2  \* lines of a note of the vault when the calls start

OtherFile == "dir/note.md"
Files == {File, OtherFile}
TaskIds == {1, 2}

\* metadataCache.getFirstLinkpathDest(path, sourcePath): the script of the
\* vault that path resolves to from the note sourcePath, if any.
vaultFrom(v, dest, sourcePath) ==
    [p \in Paths |-> IF p \in dest[sourcePath] THEN v[p] ELSE "missing"]

\* The locals of a call of update that has not read its file yet.
NewTask(file) ==
    [file |-> file, pc |-> "idle", md |-> <<>>, references |-> <<>>, idx |-> 0,
     newLines |-> <<>>]

\* The walk of a call from where walk w left it: the state at its next await.
walked(task, w) ==
    [task EXCEPT !.idx = w.idx, !.newLines = w.newLines,
                 !.pc = IF w.atReference THEN "invoke" ELSE "write"]

TaskReference(t) == tasks[t].references[findReference(tasks[t].references, tasks[t].idx)]
TaskTemplate(t) == get(vaultFrom(vault, linkpathDest, tasks[t].file), TaskReference(t).path)
TaskResult(t) == invoke(TaskTemplate(t), TaskReference(t).args)

\* update(file) from vault.read to its first await in the loop, or to its end.
TaskStart(t) ==
    /\ tasks[t].pc = "idle"
    /\ notes[tasks[t].file] # <<>>
    /\ LET file == tasks[t].file
           text == notes[file]
           parse == getDynamicTemplateReferences(text)
       IN IF parse.threw
          THEN /\ tasks' = [tasks EXCEPT ![t].md = text, ![t].pc = "failed"]
               /\ UNCHANGED settings
          ELSE IF parse.templates = <<>>
          THEN /\ tasks' = [tasks EXCEPT ![t].md = text, ![t].pc = "done"]
               /\ settings' = removeKnownTemplatedFilePath(settings, file)
          ELSE /\ tasks' = [tasks EXCEPT ![t] =
                              walked([@ EXCEPT !.md = text, !.references = parse.templates],
                                     walk(text, parse.templates, 0, <<>>))]
               /\ settings' = addKnownTemplatedFilePath(settings, file)
    /\ UNCHANGED <<vault, notes, linkpathDest, settings0, cmd>>
    /\ UNCHANGED <<parseVars, stored, pc, md, references, idx, newLines, invoked, writes,
                   round, expanded>>

\* The body of the loop at a reference, and the walk on to the next await.
TaskInvoke(t) ==
    /\ tasks[t].pc = "invoke"
    /\ ~TaskResult(t).rejected
    /\ settings' = recordTemplate(settings, TaskTemplate(t), TaskReference(t))
    /\ tasks' = [tasks EXCEPT ![t] =
                    walked(@, walk(@.md, @.references, skip(TaskReference(t), @.idx) + 1,
                                   emit(@.newLines, TaskResult(t))))]
    /\ UNCHANGED <<vault, notes, linkpathDest, settings0, cmd>>
    /\ UNCHANGED <<parseVars, stored, pc, md, references, idx, newLines, invoked, writes,
                   round, expanded>>

\* template.invoke rejects: the exception leaves this call of update.
TaskInvokeRejects(t) ==
    /\ tasks[t].pc = "invoke"
    /\ TaskResult(t).rejected
    /\ tasks' = [tasks EXCEPT ![t].pc = "failed"]
    /\ UNCHANGED <<vault, notes, linkpathDest, settings, settings0, cmd>>
    /\ UNCHANGED <<parseVars, stored, pc, md, references, idx, newLines, invoked, writes,
                   round, expanded>>

\* await vault.modify(file, data)
TaskWrite(t) ==
    /\ tasks[t].pc = "write"
    /\ notes' = [notes EXCEPT ![tasks[t].file] = data(tasks[t].newLines)]
    /\ tasks' = [tasks EXCEPT ![t].pc = "done"]
    /\ UNCHANGED <<vault, linkpathDest, settings, settings0, cmd>>
    /\ UNCHANGED <<parseVars, stored, pc, md, references, idx, newLines, invoked, writes,
                   round, expanded>>

\* update(file) as a whole, when nothing runs at its awaits: the loop from the
\* state w of the walk, with the settings s so far.
RECURSIVE updateLoop(_, _, _, _, _)
updateLoop(lines, refs, v, s, w) ==
    IF ~w.atReference
    THEN [failed |-> FALSE, written |-> TRUE, newLines |-> w.newLines, settings |-> s]
    ELSE LET reference == refs[findReference(refs, w.idx)]
             template == get(v, reference.path)
             result == invoke(template, reference.args)
         IN IF result.rejected
            THEN [failed |-> TRUE, written |-> FALSE, newLines |-> w.newLines, settings |-> s]
            ELSE updateLoop(lines, refs, v, recordTemplate(s, template, reference),
                            walk(lines, refs, skip(reference, w.idx) + 1,
                                 emit(w.newLines, result)))

\* update(file) on the text lines of file, with the scripts v and the settings s.
update(file, lines, v, s) ==
    IF getDynamicTemplateReferences(lines).threw
    THEN [failed |-> TRUE, written |-> FALSE, newLines |-> <<>>, settings |-> s]
    ELSE IF getDynamicTemplateReferences(lines).templates = <<>>
    THEN [failed |-> FALSE, written |-> FALSE, newLines |-> <<>>,
          settings |-> removeKnownTemplatedFilePath(s, file)]
    ELSE updateLoop(lines, getDynamicTemplateReferences(lines).templates, v,
                    addKnownTemplatedFilePath(s, file),
                    walk(lines, getDynamicTemplateReferences(lines).templates, 0, <<>>))

(***************************************************************************)
(* SpecInterleave: update of two notes, one call each, interleaved at the  *)
(* awaits (two commands given one after the other, neither awaited).       *)
(***************************************************************************)
NoteAlphabet == {RefA, RefB, End}
NoteDocs == UNION {[1..n -> NoteAlphabet] : n \in 1..MaxNoteLines}

\* Every note and every script known.
AllKnownFiles ==
    [knownTemplatedFilePaths |-> <<File, OtherFile>>, knownTemplatePaths |-> <<"a.js", "b.js">>]

UpdateOff ==
    /\ stored = <<Text>>
    /\ pc = "off"
    /\ md = <<>>
    /\ references = <<>>
    /\ idx = 0
    /\ newLines = <<>>
    /\ invoked = <<>>
    /\ writes = 0
    /\ round = 0
    /\ expanded = FALSE

InitInterleave ==
    /\ ParseInit
    /\ UpdateOff
    /\ vault \in {v \in Vaults : v["a.js"] \in {"greet", "throwNull"} /\ v["b.js"] = "greet"}
    /\ notes \in [Files -> NoteDocs]
    /\ linkpathDest \in [Files -> {Paths, Paths \ {"a.js"}}]
    /\ settings \in {DEFAULT_SETTINGS, AllKnownFiles}
    /\ settings0 = settings
    /\ tasks = <<NewTask(File), NewTask(OtherFile)>>
    /\ cmd = <<>>

NextInterleave ==
    \E t \in TaskIds :
        \/ TaskStart(t)
        \/ TaskInvoke(t)
        \/ TaskInvokeRejects(t)
        \/ TaskWrite(t)

SpecInterleave == InitInterleave /\ [][NextInterleave]_vars

(***************************************************************************)
(* SpecOverlap: the command 'invoke-active' given twice on the same note   *)
(* (update is not awaited by the command), while the note is edited in the *)
(* editor.                                                                 *)
(***************************************************************************)
MaxEdits == 1      \* lines typed into the note while the calls run

\* The lines of the note that were typed in the editor.
typed(lines) == Cardinality({k \in 1..Len(lines) : lines[k] = Text})

InitOverlap ==
    /\ ParseInit
    /\ UpdateOff
    /\ vault \in {v \in Vaults : v["a.js"] \in {"greet", "throwNull"} /\ v["b.js"] = "greet"}
    /\ notes \in {n \in [Files -> NoteDocs \cup {<<Text>>}] :
                    n[File] \in NoteDocs /\ n[OtherFile] = <<Text>>}
    /\ linkpathDest = [f \in Files |-> Paths]
    /\ settings \in {DEFAULT_SETTINGS, AllKnownFiles}
    /\ settings0 = settings
    /\ tasks = <<NewTask(File), NewTask(File)>>
    /\ cmd = <<>>

\* A line is typed at the end of the note and saved by the editor.
Edit ==
    /\ typed(notes[File]) < MaxEdits
    /\ notes' = [notes EXCEPT ![File] = Append(@, Text)]
    /\ UNCHANGED <<vault, linkpathDest, settings, settings0, tasks, cmd>>
    /\ UNCHANGED <<parseVars, stored, pc, md, references, idx, newLines, invoked, writes,
                   round, expanded>>

NextOverlap ==
    \/ \E t \in TaskIds :
          \/ TaskStart(t)
          \/ TaskInvoke(t)
          \/ TaskInvokeRejects(t)
          \/ TaskWrite(t)
    \/ Edit

SpecOverlap == InitOverlap /\ [][NextOverlap]_vars

(***************************************************************************)
(* SpecKnown: the command 'invoke-known'. Its loop iterates the array      *)
(* settings.knownTemplatedFilePaths itself (for ... of): the iterator      *)
(* keeps an index and compares it with the length the array has when the   *)
(* next element is asked for. Each update is awaited before the next path  *)
(* is taken, and nothing else runs at its awaits.                          *)
(***************************************************************************)
KnownFiles == Files \cup {"old.md"}

\* The text of a note of the vault, or <<>>: the vault has no such file.
KnownDocs == {<<>>, <<Text>>, <<RefA>>, <<RefA, End>>}

\* The registry as loadSettings finds it: paths of KnownFiles, none twice.
KnownLists ==
    {l \in UNION {[1..n -> KnownFiles] : n \in 0..Cardinality(KnownFiles)} :
        \A j, k \in 1..Len(l) : j # k => l[j] # l[k]}

InitKnown ==
    /\ ParseInit
    /\ UpdateOff
    /\ vault \in {v \in Vaults : v["a.js"] \in {"greet", "throwNull"} /\ v["b.js"] = "greet"}
    /\ notes \in [KnownFiles -> KnownDocs]
    /\ linkpathDest = [f \in KnownFiles |-> Paths]
    /\ settings \in {[knownTemplatedFilePaths |-> l, knownTemplatePaths |-> <<>>] :
                        l \in KnownLists}
    /\ settings0 = settings
    /\ tasks = <<>>
    /\ cmd = [pc |-> "idle", k |-> 0, processed |-> <<>>]

\* The path the iterator yields next.
KnownPath == settings.knownTemplatedFilePaths[cmd.k + 1]

\* The command is given: the iterator is created.
KnownStart ==
    /\ cmd.pc = "idle"
    /\ cmd' = [cmd EXCEPT !.pc = "loop"]
    /\ UNCHANGED <<vault, notes, linkpathDest, settings, settings0, tasks>>
    /\ UNCHANGED <<parseVars, stored, pc, md, references, idx, newLines, invoked, writes,
                   round, expanded>>

\* file instanceof TFile: await this.update(file). A rejected update leaves
\* the callback.
KnownUpdate ==
    /\ cmd.pc = "loop"
    /\ cmd.k < Len(settings.knownTemplatedFilePaths)
    /\ notes[KnownPath] # <<>>
    /\ LET u == update(KnownPath, notes[KnownPath],
                       vaultFrom(vault, linkpathDest, KnownPath), settings)
       IN /\ settings' = u.settings
          /\ notes' = IF u.written THEN [notes EXCEPT ![KnownPath] = data(u.newLines)]
                      ELSE notes
          /\ cmd' = [cmd EXCEPT !.pc = IF u.failed THEN "failed" ELSE "loop",
                                !.k = IF u.failed THEN @ ELSE @ + 1,
                                !.processed = Append(@, KnownPath)]
    /\ UNCHANGED <<vault, linkpathDest, settings0, tasks>>
    /\ UNCHANGED <<parseVars, stored, pc, md, references, idx, newLines, invoked, writes,
                   round, expanded>>

\* No such file: this.removeKnownTemplatedFilePath(path)
KnownRemove ==
    /\ cmd.pc = "loop"
    /\ cmd.k < Len(settings.knownTemplatedFilePaths)
    /\ notes[KnownPath] = <<>>
    /\ settings' = removeKnownTemplatedFilePath(settings, KnownPath)
    /\ cmd' = [cmd EXCEPT !.k = @ + 1, !.processed = Append(@, KnownPath)]
    /\ UNCHANGED <<vault, notes, linkpathDest, settings0, tasks>>
    /\ UNCHANGED <<parseVars, stored, pc, md, references, idx, newLines, invoked, writes,
                   round, expanded>>

\* The iterator is done: this.saveSettings()
KnownSave ==
    /\ cmd.pc = "loop"
    /\ cmd.k >= Len(settings.knownTemplatedFilePaths)
    /\ cmd' = [cmd EXCEPT !.pc = "saved"]
    /\ UNCHANGED <<vault, notes, linkpathDest, settings, settings0, tasks>>
    /\ UNCHANGED <<parseVars, stored, pc, md, references, idx, newLines, invoked, writes,
                   round, expanded>>

NextKnown == KnownStart \/ KnownUpdate \/ KnownRemove \/ KnownSave

SpecKnown == InitKnown /\ [][NextKnown]_vars

(***************************************************************************)
(* Properties of the scan (SpecParse).                                     *)
(***************************************************************************)
\* The start-shaped lines whose argument text is no object literal.
MalformedStarts == {RefMalformed}
\* The start-shaped lines whose object has no truthy template key.
KeylessStarts == {RefNoKey, RefEmptyKey}

\* C3: a line that matches the opening-marker pattern but whose argument text
\* cannot be evaluated is treated as ordinary text: the parse state is
\* unchanged, no error is raised and the scan goes on.
C3_MalformedIsOrdinaryText ==
    (pi >= 1 /\ line \in MalformedStarts /\ prev.codeBlockStack = <<>>)
        => (scan = prev /\ pphase # "threw")

\* C5: a line scanned while the fence stack is non-empty produces no
\* reference and closes none, whatever pattern it matches.
C5_FenceSuppression ==
    (pi >= 1 /\ Len(prev.codeBlockStack) > 0)
        => /\ scan.templates = prev.templates
           /\ scan.currentTemplate = prev.currentTemplate
           /\ pphase # "threw"

\* C5 witness: a reference-start line at nesting depth 3 (fences of 3, 4, 5
\* and 6 backticks open), and no reference produced.
C5_Witness ==
    /\ prev.codeBlockStack = <<0, 1, 2, 3>>
    /\ line = RefA
    /\ scan.templates = <<>>

\* C8: a start-shaped line whose object has no truthy template key leaves the
\* parse state unchanged, and a reference on the next line is still recognized.
C8_MissingTemplateKey ==
    (pi >= 1 /\ line \in KeylessStarts)
        => /\ scan = prev
           /\ pphase # "threw"
           /\ (scan.codeBlockStack = <<>>
                 => ParseLine(scan, RefA, pi).templates
                      = Append(prev.templates, NewReference("a.js", pi, [template |-> "a.js"])))

\* C8 witness: a keyless start line scanned outside any fence while a
\* reference is open, which stays open.
C8_Witness ==
    /\ pi >= 2
    /\ line \in KeylessStarts
    /\ prev.codeBlockStack = <<>>
    /\ prev.currentTemplate # 0
    /\ scan.currentTemplate = prev.currentTemplate

\* C13: a terminator line scanned while no reference is open leaves the
\* locals of the scan as they were: no lineEnd is set, no reference is
\* produced, no error is raised.
C13_UnmatchedEndIsNoOp ==
    (pi >= 1 /\ matchTempEnd(line) /\ prev.currentTemplate = 0)
        => (scan = prev /\ pphase # "threw")

\* C13 witness: a terminator scanned outside any fence after the one
\* reference of the document was closed, whose lineEnd stays.
C13_Witness ==
    /\ pi >= 3
    /\ matchTempEnd(line)
    /\ prev.codeBlockStack = <<>>
    /\ prev.currentTemplate = 0
    /\ Len(prev.templates) = 1
    /\ prev.templates[1].lineEnd = 1
    /\ scan.templates[1].lineEnd = 1

\* C16: at every point of the scan at most one reference is open, the one
\* pushed last, and it has no lineEnd; a lineEnd that is present is greater
\* than lineStart; a reference that is not open is never changed again, so a
\* reference superseded by a later start before any terminator keeps lineEnd
\* unset: a lineEnd that is present lies before the next reference's start.
C16_ParserInvariant ==
    /\ scan.currentTemplate \in {0, Len(scan.templates)}
    /\ scan.currentTemplate # 0 => scan.templates[scan.currentTemplate].lineEnd = NoLine
    /\ \A k \in 1..Len(scan.templates) :
          /\ scan.templates[k].lineEnd # NoLine
                => scan.templates[k].lineEnd > scan.templates[k].lineStart
          /\ (k < Len(scan.templates) /\ scan.templates[k].lineEnd # NoLine)
                => scan.templates[k].lineEnd < scan.templates[k + 1].lineStart
    /\ \A k \in 1..Len(prev.templates) :
          k # prev.currentTemplate => scan.templates[k] = prev.templates[k]

\* C16 witness: a terminator scanned after two reference starts in a row
\* closes the second and leaves the first without lineEnd.
C16_Witness ==
    /\ matchTempEnd(line)
    /\ Len(scan.templates) = 2
    /\ prev.currentTemplate = 2
    /\ scan.currentTemplate = 0
    /\ scan.templates[1].lineEnd = NoLine
    /\ scan.templates[2].lineStart = scan.templates[1].lineStart + 1
    /\ scan.templates[2].lineEnd = pi - 1

\* A reference start or a terminator on the next line changes nothing and
\* raises no error.
nextLineIgnored ==
    \A l \in {RefA, RefMalformed, End} :
        ParseLine(scan, l, pi) = scan

\* C17 as stated: while some fence that was pushed has not been followed by a
\* fence line of its backtick count, the fence stack is non-empty and no
\* reference is recognized on the next line, whatever the nesting position
\* of that fence.
C17_UnmatchedFenceSuppresses ==
    unmatched # {} => (scan.codeBlockStack # <<>> /\ nextLineIgnored /\ pphase # "threw")

\* C17 amended: a fence on the stack stays there, with the fences beneath it,
\* over every line that is not a fence line of its backtick count or of the
\* count of a fence beneath it (a fence line of an enclosing fence's count
\* closes the inner fences with it); while the stack is non-empty no
\* reference is recognized and no error is raised.
C17_OpenFenceSuppresses ==
    /\ pi >= 1 =>
          \A k \in 1..Len(prev.codeBlockStack) :
              matchCodeBlock(line) \notin {prev.codeBlockStack[j] : j \in 1..k}
                => /\ Len(scan.codeBlockStack) >= k
                   /\ SubSeq(scan.codeBlockStack, 1, k) = SubSeq(prev.codeBlockStack, 1, k)
    /\ scan.codeBlockStack # <<>> => (nextLineIgnored /\ pphase # "threw")
    /\ elements(scan.codeBlockStack) \subseteq unmatched

\* C17 witness: a fence of four backticks stays open over a fence of three
\* backticks opened and closed inside it, and a reference start scanned after
\* that is not recognized.
C17_Witness ==
    /\ pi = 4
    /\ line = RefA
    /\ prev.codeBlockStack = <<1>>
    /\ unmatched = {1}
    /\ scan.templates = <<>>
    /\ scan.codeBlockStack = <<1>>

(***************************************************************************)
(* Properties of update (Spec).                                            *)
(***************************************************************************)
Completed == pc = "done"
Invocations == {invoked[k] : k \in 1..Len(invoked)}

\* C1: update is idempotent: an update of the text a completed update left,
\* with the same scripts, leaves the text and its references as they were.
C1_Idempotent ==
    (Completed /\ expanded)
        => /\ stored = md
           /\ getDynamicTemplateReferences(stored).templates = references

\* C2: when the script of a reference throws, update still completes, the
\* reference's body becomes exactly one error marker line and a terminator,
\* and every other reference is invoked too.
C2_ErrorContained ==
    \A v \in Invocations :
        v.threw =>
            /\ pc # "failed"
            /\ ~v.result.rejected
            /\ Len(v.result.lines) = 1
            /\ Completed =>
                  /\ stored[v.at] = md[v.lineStart + 1]
                  /\ stored[v.at + 1] = v.result.lines[1]
                  /\ stored[v.at + 2] = End
                  /\ Len(invoked) = Len(references)

\* The marker invoke renders for a script that is not found.
NotFoundMarker == "%% **Error:** Template not found %%"

\* C4: a document of an opening marker naming a script the vault does not
\* hold and a closing marker expands to the opening marker followed directly
\* by a closing marker, or to the opening marker, one error marker line and a
\* closing marker; either way the reference is still terminated.
C4_MissingScriptStaysTerminated ==
    (Completed /\ Len(md) = 2 /\ md[1] \in {RefA, LegacyRefA} /\ md[2] = End
       /\ vault["a.js"] = "missing")
        => stored \in {<<md[1], End>>, <<md[1], NotFoundMarker, End>>}

\* C6: the example document expands to its three lines.
C6_Example ==
    (Completed /\ md = <<RefB, End>> /\ vault["b.js"] = "greet")
        => stored = <<RefB, "My name is Nate.", End>>

\* The place in doc of the first terminator line after place at (0: none).
nextEnd(doc, at) ==
    IF \E j \in (at + 1)..Len(doc) : matchTempEnd(doc[j])
    THEN CHOOSE j \in (at + 1)..Len(doc) :
            matchTempEnd(doc[j]) /\ \A h \in (at + 1)..(j - 1) : ~matchTempEnd(doc[h])
    ELSE 0

C7_KnownIffFound ==
    \A v \in Invocations :
        contains(settings.knownTemplatePaths, v.path) <=> vault[v.path] # "missing"

\* C9: after an update that completes, the note is a known templated file if
\* and only if the text read held a reference; with none, nothing is written.
C9_KnownFileIffReferences ==
    Completed =>
        /\ contains(settings.knownTemplatedFilePaths, File)
             <=> getDynamicTemplateReferences(md).templates # <<>>
        /\ getDynamicTemplateReferences(md).templates = <<>>
             => (stored = md /\ writes = 0)

\* C9 witness: a known note without references has been updated: its path is
\* removed, the known templates are untouched.
C9_Witness ==
    /\ Completed
    /\ round = 1
    /\ getDynamicTemplateReferences(md).templates = <<>>
    /\ settings = [AllKnown EXCEPT !.knownTemplatedFilePaths = <<>>]

\* C10: an update writes the note at most once, only after the walk has left
\* the loop with every reference invoked, and then writes all of newLines;
\* until then, and when update fails, the note is as it was read.
C10_AtomicWriteBack ==
    /\ writes <= 1
    /\ pc \in {"invoke", "write", "failed"} => (writes = 0 /\ stored = md)
    /\ writes = 1 =>
          /\ Completed
          /\ stored = newLines
          /\ idx >= Len(md)
          /\ \A k \in 1..Len(references) :
                \E v \in Invocations :
                    v.lineStart = references[k].lineStart /\ ~v.result.rejected

\* C10 witness: update failed at the second reference, with output lines
\* built, and the note is as it was read.
C10_Witness ==
    /\ pc = "failed"
    /\ Len(invoked) = 2
    /\ Len(newLines) > Len(md)
    /\ stored = md

\* The references whose invocation update awaits.
inFlight == IF pc = "invoke" THEN {findReference(references, idx)} ELSE {}

\* C15: within one update the invocations are made in increasing order of
\* lineStart, the k-th for the k-th reference, and an invocation is awaited
\* only when the invocations of all earlier references have completed and
\* none of a later reference has begun.
C15_SequentialOrder ==
    /\ Len(invoked) <= Len(references)
    /\ \A k \in 1..Len(invoked) : invoked[k].lineStart = references[k].lineStart
    /\ \A j, k \in 1..Len(invoked) : j < k => invoked[j].lineStart < invoked[k].lineStart
    /\ \A k \in inFlight : k = Len(invoked) + 1

\* C15 witness: the invocation of the third reference is awaited, those of
\* the first two have completed.
C15_Witness ==
    /\ pc = "invoke"
    /\ Len(references) = 3
    /\ Len(invoked) = 2
    /\ inFlight = {3}

\* The lines of seq at the places of the set S, in their order.
linesAt(seq, S) ==
    [k \in 1..Cardinality(S) |->
        seq[CHOOSE j \in S : Cardinality({h \in S : h <= j}) = k]]

\* Line index i lies in the span (lineStart, lineEnd] of a terminated reference.
inSpan(refs, i) ==
    \E k \in 1..Len(refs) :
        refs[k].lineEnd # NoLine /\ refs[k].lineStart < i /\ i <= refs[k].lineEnd

\* What update emits after the start line of an invoked reference.
emitted(v) == IF truthy(v.result) THEN v.result.lines \o <<End>> ELSE <<>>

\* The places of the stored text that hold emitted lines.
emittedPlaces == UNION {(v.at + 1)..(v.at + Len(emitted(v))) : v \in Invocations}

\* C14: the text an update leaves consists of the lines read that lie outside
\* the span of every terminated reference, each once and in their order, and
\* of nothing else but what was emitted directly after each reference's start
\* line (the lines of the result and one terminator); a reference without
\* lineEnd has no span, so no line read is skipped for it.
C14_VerbatimPreservation ==
    Completed =>
        /\ linesAt(stored, (1..Len(stored)) \ emittedPlaces)
              = linesAt(md, {i + 1 : i \in {h \in 0..(Len(md) - 1) : ~inSpan(references, h)}})
        /\ \A v \in Invocations :
              /\ stored[v.at] = md[v.lineStart + 1]
              /\ SubSeq(stored, v.at + 1, v.at + Len(emitted(v))) = emitted(v)
              /\ (~v.terminated /\ v.lineStart + 1 < Len(md)) =>
                    stored[v.at + Len(emitted(v)) + 1] = md[v.lineStart + 2]

\* C14 witness: a terminated reference followed by a line of text, and an
\* update that has replaced the span and kept the text.
C14_Witness ==
    /\ Completed
    /\ md = <<RefA, End, Text>>
    /\ vault["a.js"] = "two"
    /\ stored = <<RefA, "one", "two", End, Text>>

\* C19: the references update parsed have strictly increasing lineStart and
\* no reference starts inside the span of another, the walk never jumps over
\* a reference's start line, and when the update has ended every parsed
\* reference has been invoked exactly once.
C19_EveryReferenceOnce ==
    /\ \A j, k \in 1..Len(references) :
          j < k => references[j].lineStart < references[k].lineStart
    /\ \A k \in 1..Len(references) : ~inSpan(references, references[k].lineStart)
    /\ \A k \in 1..Len(references) :
          (pc \in {"invoke", "write", "done"} /\ references[k].lineStart < idx)
              => \E v \in Invocations : v.lineStart = references[k].lineStart
    /\ pc \in {"done", "failed"} =>
          /\ Len(invoked) = Len(references)
          /\ \A k \in 1..Len(invoked) : invoked[k].lineStart = references[k].lineStart

(***************************************************************************)
(* Properties of the arguments a script receives (SpecArgs).               *)
(***************************************************************************)
\* C12: the input a script receives is the mapping its reference's argument
\* literal evaluates to, the template key and nested values included: a
\* script that reports its input reports exactly that mapping.
C12_ArgumentRoundTrip ==
    \A v \in Invocations :
        /\ v.input = evalArgs(md[v.lineStart + 1]).value
        /\ v.code = "echo" =>
              v.result.lines = <<"Input: " \o stringify(evalArgs(md[v.lineStart + 1]).value)>>
        /\ (v.code = "echo" /\ md[v.lineStart + 1] = RefObjects) =>
              v.result.lines
                = <<"Input: {\"template\":\"a.js\",\"list\":[1,2,3],\"obj\":{\"foo\":\"bar\"}}">>

\* C12 witness: the reference with a list and an object has been expanded by
\* a script that reports its input, and the report stands in the note.
C12_Witness ==
    /\ Completed
    /\ md = <<RefObjects, End>>
    /\ vault["a.js"] = "echo"
    /\ stored = <<RefObjects,
                  "Input: {\"template\":\"a.js\",\"list\":[1,2,3],\"obj\":{\"foo\":\"bar\"}}",
                  End>>

(***************************************************************************)
(* Properties of interleaved calls of update (SpecInterleave).             *)
(***************************************************************************)
Ended(t) == tasks[t].pc \in {"done", "failed"}

\* The settings after update of the first note and then of the second, each
\* run without interruption on the text its call read.
OneThenOther ==
    update(OtherFile, tasks[2].md, vaultFrom(vault, linkpathDest, OtherFile),
           update(File, tasks[1].md, vaultFrom(vault, linkpathDest, File),
                  settings0).settings).settings

\* C11: however the calls of update on two notes interleave, the two
\* registries end with the contents they have when one call runs after the
\* other: the final contents do not depend on the interleaving.
C11_RegistryCommutes ==
    (Ended(1) /\ Ended(2))
        => /\ elements(settings.knownTemplatedFilePaths)
                = elements(OneThenOther.knownTemplatedFilePaths)
           /\ elements(settings.knownTemplatePaths)
                = elements(OneThenOther.knownTemplatePaths)

(***************************************************************************)
(* Properties of the command 'invoke-known' (SpecKnown).                   *)
(***************************************************************************)
\* The number of times path was taken by the loop.
timesProcessed(path) == Cardinality({k \in 1..Len(cmd.processed) : cmd.processed[k] = path})

\* C18: a run of the command that reaches saveSettings has taken every path
\* that was registered when the command started exactly once: none is
\* skipped.
C18_EveryKnownPathOnce ==
    cmd.pc = "saved" =>
        \A path \in elements(settings0.knownTemplatedFilePaths) : timesProcessed(path) = 1

(***************************************************************************)
(* Properties of overlapping calls and edits (SpecOverlap).                *)
(***************************************************************************)
\* C20: no lost update: a call of update writes its rewrite only onto the
\* text it read; when the stored text has changed since (an edit, or the
\* write of an overlapping call), the write does not replace it.
C20_NoLostUpdate ==
    [][\A t \in TaskIds :
          (tasks[t].pc = "write" /\ tasks'[t].pc = "done")
              => notes[tasks[t].file] = tasks[t].md]_vars

====
